---- MODULE Spec2Model ----
(***************************************************************************)
(* Model of the CV Builder renderer: TextProcessor (text resolution and    *)
(* inline markup), CVRenderer (slug generation, table of contents, block   *)
(* rendering).                                                              *)
(*                                                                          *)
(* A JavaScript string is modelled as a sequence of lexemes.  A lexeme is  *)
(* a single character, or one of the fixed substrings the markup regular   *)
(* expressions are built from ("{{bold(", "{{underline(", ")}}") or that   *)
(* they emit ("<strong>", "</strong>", "<u>", "</u>").  No concatenation   *)
(* of lexemes contains one of the multi-character lexemes across a lexeme  *)
(* boundary, so matching on lexemes agrees with matching on characters.    *)
(***************************************************************************)
EXTENDS Integers, Sequences, FiniteSets, TLC

VARIABLES
    currentLanguage,  \* CVRenderer.currentLanguage
    cvData,           \* the document last handed to renderCV
    rendered,         \* what that call produced: a result or an exception
    text,             \* argument of generateId / processText
    localizedText,    \* argument of getLocalizedText
    language,         \* argument of getLocalizedText
    returned,         \* value returned by the pure function under check
    pc                \* "idle" | "called" | "returned"

vars == <<currentLanguage, cvData, rendered, text, localizedText, language,
          returned, pc>>

(***************************************************************************)
(* Bounds                                                                   *)
(***************************************************************************)
MaxIdLen == 4        \* longest text handed to generateId
MaxPieces == 4       \* markup pieces concatenated into a processText input
MaxKeys == 2         \* keys of a LocalizedText mapping
MaxBlocks == 3       \* top-level blocks of a document

(***************************************************************************)
(* Strings                                                                  *)
(***************************************************************************)
EmptyString == <<>>

RECURSIVE Concat(_)
Concat(ss) == IF ss = <<>> THEN <<>> ELSE Head(ss) \o Concat(Tail(ss))

SeqsUpTo(S, n) == UNION {[1..k -> S] : k \in 0..n}

\* The characters of a multi-character lexeme.
Explode(lx) ==
    CASE lx = "{{bold(" -> <<"{", "{", "b", "o", "l", "d", "(">>
      [] lx = "{{underline(" ->
            <<"{", "{", "u", "n", "d", "e", "r", "l", "i", "n", "e", "(">>
      [] lx = ")}}" -> <<")", "}", "}">>
      [] lx = "<strong>" -> <<"<", "s", "t", "r", "o", "n", "g", ">">>
      [] lx = "</strong>" -> <<"<", "/", "s", "t", "r", "o", "n", "g", ">">>
      [] lx = "<u>" -> <<"<", "u", ">">>
      [] lx = "</u>" -> <<"<", "/", "u", ">">>
      [] OTHER -> <<lx>>

Chars(s) == Concat([i \in 1..Len(s) |-> Explode(s[i])])

UpperCase == <<"A", "B", "C", "D", "E", "F", "G", "H", "I", "J", "K", "L", "M",
               "N", "O", "P", "Q", "R", "S", "T", "U", "V", "W", "X", "Y", "Z">>
LowerCase == <<"a", "b", "c", "d", "e", "f", "g", "h", "i", "j", "k", "l", "m",
               "n", "o", "p", "q", "r", "s", "t", "u", "v", "w", "x", "y", "z">>
Digits == {"0", "1", "2", "3", "4", "5", "6", "7", "8", "9"}
WhiteSpace == {" ", "\t", "\n"}
Hyphen == "-"

Range(f) == {f[i] : i \in DOMAIN f}

\* String.prototype.toLowerCase, one character
toLowerCase(c) ==
    IF \E i \in DOMAIN UpperCase : UpperCase[i] = c
    THEN LowerCase[CHOOSE i \in DOMAIN UpperCase : UpperCase[i] = c]
    ELSE c

RECURSIVE DropWhile(_, _)
DropWhile(s, cls) ==
    IF s # <<>> /\ Head(s) \in cls THEN DropWhile(Tail(s), cls) ELSE s

\* s.replace(/[cls]+/g, "-"): every maximal run of characters of cls becomes
\* one hyphen
RECURSIVE ReplaceRuns(_, _)
ReplaceRuns(s, cls) ==
    IF s = <<>> THEN <<>>
    ELSE IF Head(s) \in cls
         THEN <<Hyphen>> \o ReplaceRuns(DropWhile(Tail(s), cls), cls)
         ELSE <<Head(s)>> \o ReplaceRuns(Tail(s), cls)

RECURSIVE DropWhileEnd(_, _)
DropWhileEnd(s, cls) ==
    IF s # <<>> /\ s[Len(s)] \in cls
    THEN DropWhileEnd(SubSeq(s, 1, Len(s) - 1), cls)
    ELSE s

\* String.prototype.trim: removes leading and trailing white space
trim(s) == DropWhileEnd(DropWhile(s, WhiteSpace), WhiteSpace)

(***************************************************************************)
(* CVRenderer.generateId                                                    *)
(***************************************************************************)
IdChars == Range(LowerCase) \cup Digits \cup WhiteSpace \cup {Hyphen}

generateId(t) ==
    IF t = EmptyString THEN EmptyString
    ELSE
      LET lower == [i \in 1..Len(Chars(t)) |-> toLowerCase(Chars(t)[i])]
          stripped == SelectSeq(lower, LAMBDA c : c \in IdChars)
          dashed == ReplaceRuns(stripped, WhiteSpace)
          collapsed == ReplaceRuns(dashed, {Hyphen})
      IN  trim(collapsed)

(***************************************************************************)
(* TextProcessor.processText                                                *)
(***************************************************************************)
Apostrophe == "'"
ClosePattern == ")}}"

\* the literal prefixes of the two regular expressions, up to the apostrophe
boldPattern == "{{bold("

\* the underline expression written with the bold prefix
underlinePatternCopied == "{{bold("

underlinePattern == "{{underline("

\* [^']* in place of [^']+ : the content may be empty
MatchEndEmptyContent(s, i, open) ==
    IF i + 1 <= Len(s) /\ s[i] = open /\ s[i + 1] = Apostrophe
       /\ \E j \in (i + 2)..Len(s) : s[j] = Apostrophe
    THEN LET j == CHOOSE k \in (i + 2)..Len(s) :
                      /\ s[k] = Apostrophe
                      /\ \A m \in (i + 2)..(k - 1) : s[m] # Apostrophe
         IN  IF j + 1 <= Len(s) /\ s[j + 1] = ClosePattern
             THEN j + 1 ELSE 0
    ELSE 0

\* Whether /\{\{<open>\('([^']+)'\)\}\}/ matches at position i of s: the
\* position of the last lexeme of the match, or 0.  The content runs to the
\* first apostrophe after the opening one and must not be empty.
MatchEnd(s, i, open) ==
    IF i + 1 <= Len(s) /\ s[i] = open /\ s[i + 1] = Apostrophe
       /\ \E j \in (i + 2)..Len(s) : s[j] = Apostrophe
    THEN LET j == CHOOSE k \in (i + 2)..Len(s) :
                      /\ s[k] = Apostrophe
                      /\ \A m \in (i + 2)..(k - 1) : s[m] # Apostrophe
         IN  IF j > i + 2 /\ j + 1 <= Len(s) /\ s[j + 1] = ClosePattern
             THEN j + 1 ELSE 0
    ELSE 0

\* "$&" in place of "$1": the whole match is kept inside the tags
SubstituteWholeMatch(content, openTag, closeTag) ==
    <<openTag, boldPattern, Apostrophe>> \o content
        \o <<Apostrophe, ClosePattern, closeTag>>

\* the replacement strings "<strong>$1</strong>" and "<u>$1</u>"
Substitute(content, openTag, closeTag) ==
    <<openTag>> \o content \o <<closeTag>>

\* String.prototype.replace with a global regular expression: leftmost
\* matches, left to right, never rescanning what was emitted
RECURSIVE ReplaceFrom(_, _, _, _, _)
ReplaceFrom(s, i, open, openTag, closeTag) ==
    IF i > Len(s) THEN <<>>
    ELSE LET e == MatchEnd(s, i, open)
         IN  IF e > 0
             THEN Substitute(SubSeq(s, i + 2, e - 2), openTag, closeTag)
                      \o ReplaceFrom(s, e + 1, open, openTag, closeTag)
             ELSE <<s[i]>> \o ReplaceFrom(s, i + 1, open, openTag, closeTag)

boldRule(s) == ReplaceFrom(s, 1, boldPattern, "<strong>", "</strong>")

underlineRule(s) == ReplaceFrom(s, 1, underlinePattern, "<u>", "</u>")

processText(t) ==
    IF t = EmptyString THEN EmptyString
    ELSE underlineRule(boldRule(t))

(***************************************************************************)
(* TextProcessor.getLocalizedText                                           *)
(*                                                                          *)
(* A LocalizedText value is absent, a string, or an object whose entries    *)
(* are kept in insertion order (Object.keys order for language codes).      *)
(***************************************************************************)
Absent == [kind |-> "absent", str |-> EmptyString, entries |-> <<>>]
Str(s) == [kind |-> "string", str |-> s, entries |-> <<>>]
Obj(es) == [kind |-> "object", str |-> EmptyString, entries |-> es]

\* JavaScript truthiness of a LocalizedText value
Truthy(v) == v.kind = "object" \/ (v.kind = "string" /\ v.str # EmptyString)

HasKey(v, L) == \E i \in 1..Len(v.entries) : v.entries[i].key = L

\* v[L] for a key the object has
Get(v, L) ==
    v.entries[CHOOSE i \in 1..Len(v.entries) : v.entries[i].key = L].value

getLocalizedText(v, L) ==
    IF ~ Truthy(v) THEN EmptyString
    ELSE IF v.kind = "string" THEN v.str
    ELSE IF HasKey(v, L) /\ Get(v, L) # EmptyString THEN Get(v, L)
    ELSE IF Len(v.entries) > 0 THEN v.entries[1].value
    ELSE EmptyString

processLocalizedText(v, L) == processText(getLocalizedText(v, L))

(***************************************************************************)
(* Documents and blocks (data.json)                                         *)
(*                                                                          *)
(* A block is null or an object; an absent field of an object is Absent     *)
(* (LocalizedText), 0 (level), or has its has* flag FALSE.                  *)
(***************************************************************************)
NoContact ==
    [present |-> FALSE, email |-> Absent, phone |-> Absent, location |-> Absent]

EmptyObject ==
    [kind |-> "object", type |-> "", name |-> Absent, title |-> Absent,
     text |-> Absent, contact |-> NoContact, level |-> 0,
     hasBlocks |-> FALSE, blocks |-> <<>>, hasItems |-> FALSE, items |-> <<>>]

NullBlock == [EmptyObject EXCEPT !.kind = "null"]

OfType(t) == [EmptyObject EXCEPT !.type = t]

Paragraph(t) == [OfType("paragraph") EXCEPT !.text = t]

Heading(t, l) == [OfType("heading") EXCEPT !.text = t, !.level = l]

Section(t, bs) ==
    [OfType("section") EXCEPT !.title = t, !.hasBlocks = TRUE, !.blocks = bs]

Subsection(t, bs) ==
    [OfType("subsection") EXCEPT !.title = t, !.hasBlocks = TRUE, !.blocks = bs]

List(t, is) ==
    [OfType("list") EXCEPT !.title = t, !.hasItems = TRUE, !.items = is]

KnownTypes ==
    {"header", "heading", "paragraph", "section", "subsection", "list", "divider"}

\* the document handed to renderCV: absent, or an object whose blocks field
\* is absent, a string, a plain object or an array
NoDocument == [kind |-> "absent", blocksKind |-> "absent", blocks |-> <<>>]
Document(k, bs) == [kind |-> "object", blocksKind |-> k, blocks |-> bs]

\* !cvData.blocks
BlocksFalsy(d) == d.blocksKind \in {"absent", "emptyString"}

(***************************************************************************)
(* Output tree (DOM elements)                                               *)
(***************************************************************************)
\* document.createElement(tag)
Element(tag) ==
    [tag |-> tag, className |-> "", id |-> EmptyString, href |-> EmptyString,
     title |-> EmptyString, text |-> EmptyString, children |-> <<>>]

\* null
NoNode == Element("")

appendChild(parent, child) ==
    [parent EXCEPT !.children = Append(@, child)]

\* TextProcessor.createElement: innerHTML is the processed text, then the
\* attributes (only class is ever given)
createElement(tag, v, L, cls) ==
    [Element(tag) EXCEPT !.text = processLocalizedText(v, L), !.className = cls]

\* what a call of renderCV left: a thrown exception (or no call yet) has no
\* toc and no content
Thrown(e) == [outcome |-> e, toc |-> NoNode, content |-> NoNode]

NotRendered == Thrown("none")

(***************************************************************************)
(* Inputs of the markup check: concatenations of markup pieces              *)
(***************************************************************************)
MarkupPieces ==
    { <<boldPattern, Apostrophe>>, <<underlinePattern, Apostrophe>>,
      <<Apostrophe, ClosePattern>>, <<Apostrophe>>, <<"x">>,
      <<boldPattern>>, <<underlinePattern>>, <<ClosePattern>>,
      <<boldPattern, Apostrophe, "x", Apostrophe, ClosePattern>>,
      <<underlinePattern, Apostrophe, "x", Apostrophe, ClosePattern>> }

MarkupTexts == {Concat(p) : p \in SeqsUpTo(MarkupPieces, MaxPieces)}

InitMarkup ==
    /\ text \in MarkupTexts
    /\ pc = "called"
    /\ returned = EmptyString
    /\ currentLanguage = "en"
    /\ cvData = NoDocument
    /\ rendered = NotRendered
    /\ localizedText = Absent
    /\ language = "en"

ProcessText ==
    /\ pc = "called"
    /\ returned' = processText(text)
    /\ pc' = "returned"
    /\ UNCHANGED <<currentLanguage, cvData, rendered, text, localizedText,
                   language>>

NextMarkup == ProcessText

SpecMarkup == InitMarkup /\ [][NextMarkup]_vars

(***************************************************************************)
(* Shapes of markup text                                                    *)
(***************************************************************************)
Openers == {"{{bold(", "{{underline("}

IsOpenerAt(s, i) ==
    i + 1 <= Len(s) /\ s[i] \in Openers /\ s[i + 1] = Apostrophe

NoApostrophe(s, from, to) == \A m \in from..to : s[m] # Apostrophe

\* a complete pattern {{bold('c')}} or {{underline('c')}}, c a non-empty run
\* without apostrophe, occupies positions i..e of s
IsPatternAt(s, i, e) ==
    /\ IsOpenerAt(s, i)
    /\ e <= Len(s) /\ e - 1 > i + 2
    /\ s[e - 1] = Apostrophe /\ s[e] = ")}}"
    /\ NoApostrophe(s, i + 2, e - 2)

HasPattern(s) == \E i, e \in 1..Len(s) : IsPatternAt(s, i, e)

\* an opening delimiter whose next apostrophe belongs to another opening
\* delimiter: one pattern is being written inside the content of another
NestedOpener(s) ==
    \E i, k \in 1..Len(s) :
        /\ IsOpenerAt(s, i) /\ IsOpenerAt(s, k)
        /\ k >= i + 2
        /\ NoApostrophe(s, i + 2, k)

\* the fragment opened at the start of s is never closed
Unbalanced(s) ==
    /\ IsOpenerAt(s, 1)
    /\ ~ \E j \in 3..(Len(s) - 1) : s[j] = Apostrophe /\ s[j + 1] = ")}}"

\* s is one fragment, opened and closed, with an apostrophe in its content
ApostropheInContent(s) ==
    /\ IsOpenerAt(s, 1) /\ Len(s) >= 5
    /\ s[Len(s) - 1] = Apostrophe /\ s[Len(s)] = ")}}"
    /\ ~ NoApostrophe(s, 3, Len(s) - 2)
    /\ ~ \E e \in 1..Len(s) : IsPatternAt(s, 1, e)
    /\ ~ \E i \in 3..Len(s) : IsOpenerAt(s, i)

\* s is one fragment, opened and closed, with a complete pattern in its content
NestedPattern(s) ==
    /\ IsOpenerAt(s, 1) /\ Len(s) >= 5
    /\ s[Len(s) - 1] = Apostrophe /\ s[Len(s)] = ")}}"
    /\ \E i, e \in 3..(Len(s) - 2) :
          /\ IsPatternAt(s, i, e)
          /\ NoApostrophe(s, 3, i - 1)
          /\ NoApostrophe(s, e + 1, Len(s) - 2)

IdAlphabet == {"a", "B", "1", " ", "-", "!"}

InitSlug ==
    /\ text \in SeqsUpTo(IdAlphabet, MaxIdLen)
    /\ pc = "called"
    /\ returned = EmptyString
    /\ currentLanguage = "en"
    /\ cvData = NoDocument
    /\ rendered = NotRendered
    /\ localizedText = Absent
    /\ language = "en"

GenerateId ==
    /\ pc = "called"
    /\ returned' = generateId(text)
    /\ pc' = "returned"
    /\ UNCHANGED <<currentLanguage, cvData, rendered, text, localizedText,
                   language>>

NextSlug == GenerateId

SpecSlug == InitSlug /\ [][NextSlug]_vars

(***************************************************************************)
(* C5                                                                       *)
(***************************************************************************)
SlugChars == Range(LowerCase) \cup Digits \cup {Hyphen}

\* C5: the slug holds only a-z, 0-9 and hyphen, no two hyphens in a row, and
\* neither starts nor ends with a hyphen (so white-space-only or fully
\* stripped input gives the empty string).
C5_SlugWellFormed ==
    pc = "returned" =>
        /\ \A i \in 1..Len(returned) : returned[i] \in SlugChars
        /\ \A i \in 1..(Len(returned) - 1) :
              ~ (returned[i] = Hyphen /\ returned[i + 1] = Hyphen)
        /\ returned # EmptyString =>
              (returned[1] # Hyphen /\ returned[Len(returned)] # Hyphen)

Languages == {"en", "fr", "de"}
Words == {EmptyString, <<"H", "i">>, <<"B", "o", "n">>}

DistinctKeys(es) ==
    \A i, j \in 1..Len(es) : i # j => es[i].key # es[j].key

Objects(n) ==
    {Obj(es) : es \in {e \in SeqsUpTo([key : Languages, value : Words], n) :
                          DistinctKeys(e)}}

LocalizedTexts == {Absent} \cup {Str(w) : w \in Words} \cup Objects(MaxKeys)

InitLocalized ==
    /\ localizedText \in LocalizedTexts
    /\ language \in Languages
    /\ pc = "called"
    /\ returned = EmptyString
    /\ text = EmptyString
    /\ currentLanguage = "en"
    /\ cvData = NoDocument
    /\ rendered = NotRendered

GetLocalizedText ==
    /\ pc = "called"
    /\ returned' = getLocalizedText(localizedText, language)
    /\ pc' = "returned"
    /\ UNCHANGED <<currentLanguage, cvData, rendered, text, localizedText,
                   language>>

NextLocalized == GetLocalizedText

SpecLocalized == InitLocalized /\ [][NextLocalized]_vars

(***************************************************************************)
(* C6                                                                       *)
(***************************************************************************)
\* C6: a string resolves to itself; an object with key L resolves to v[L],
\* whatever string that is; an object without key L resolves to the value of
\* its first key; an absent value or an empty object resolves to "".
C6_Resolve ==
    pc = "returned" =>
        /\ localizedText.kind = "string" => returned = localizedText.str
        /\ (localizedText.kind = "object" /\ HasKey(localizedText, language))
              => returned = Get(localizedText, language)
        /\ (localizedText.kind = "object" /\ ~ HasKey(localizedText, language)
               /\ Len(localizedText.entries) > 0)
              => returned = localizedText.entries[1].value
        /\ (localizedText.kind = "absent"
               \/ (localizedText.kind = "object"
                     /\ Len(localizedText.entries) = 0))
              => returned = EmptyString

(***************************************************************************)
(* CVRenderer.generateTableOfContents                                       *)
(***************************************************************************)
\* every section, titled or not
isTocEntryAnySection(block) == block.type = "section"

\* block.type === "section" && block.title
isTocEntry(block) == block.type = "section" /\ Truthy(block.title)

\* the title resolved for the default language, whatever the current one
tocTitleTextDefaultLanguage(block, L) == getLocalizedText(block.title, "en")

tocTitleText(block, L) == getLocalizedText(block.title, L)

tocItem(block, L) ==
    appendChild([Element("li") EXCEPT !.className = "toc-item"],
                [Element("a") EXCEPT
                    !.href = <<"#">> \o generateId(tocTitleText(block, L)),
                    !.text = tocTitleText(block, L),
                    !.className = "toc-link"])

RECURSIVE tocItems(_, _)
tocItems(blocks, L) ==
    IF blocks = <<>> THEN <<>>
    ELSE (IF isTocEntry(Head(blocks)) THEN <<tocItem(Head(blocks), L)>>
          ELSE <<>>) \o tocItems(Tail(blocks), L)

\* the container built for a document whose blocks can be iterated
tocContainer(blocks, L) ==
    [Element("div") EXCEPT
        !.className = "cv-toc",
        !.children =
            << [Element("h3") EXCEPT !.text = <<"Table of Contents">>,
                                     !.className = "toc-title"],
               [Element("ul") EXCEPT !.className = "toc-list",
                                     !.children = tocItems(blocks, L)] >>]

\* reading block.type of a null element throws
TocThrows(d) ==
    \/ d.blocksKind # "array"
    \/ \E i \in 1..Len(d.blocks) : d.blocks[i].kind = "null"

\* the value returned when nothing is thrown
generateTableOfContents(d, L) ==
    IF d.kind = "absent" \/ BlocksFalsy(d) THEN NoNode
    ELSE tocContainer(d.blocks, L)

(***************************************************************************)
(* CVRenderer.renderBlock and the renderers it dispatches to                *)
(***************************************************************************)
\* Array.prototype.join
RECURSIVE join(_, _)
join(parts, sep) ==
    IF parts = <<>> THEN EmptyString
    ELSE IF Len(parts) = 1 THEN parts[1]
    ELSE parts[1] \o <<sep>> \o join(Tail(parts), sep)

contactItem(label, v, L) ==
    IF Truthy(v) /\ getLocalizedText(v, L) # EmptyString
    THEN << <<label>> \o getLocalizedText(v, L) >>
    ELSE <<>>

renderContact(contact, L) ==
    [Element("div") EXCEPT
        !.className = "cv-contact",
        !.text = join(contactItem("Email: ", contact.email, L)
                        \o contactItem("Phone: ", contact.phone, L)
                        \o contactItem("Location: ", contact.location, L),
                      " | ")]

renderHeader(block, L) ==
    [Element("div") EXCEPT
        !.className = "cv-header",
        !.children =
            (IF Truthy(block.name)
             THEN <<createElement("h1", block.name, L, "cv-name")>> ELSE <<>>)
            \o (IF Truthy(block.title)
                THEN <<createElement("h2", block.title, L, "cv-title")>>
                ELSE <<>>)
            \o (IF block.contact.present
                THEN <<renderContact(block.contact, L)>> ELSE <<>>)]

\* `h${level}`
headingTag(level) ==
    CASE level = 1 -> "h1" [] level = 2 -> "h2" [] level = 3 -> "h3"
      [] level = 4 -> "h4" [] level = 5 -> "h5" [] level = 6 -> "h6"

renderHeading(block, L) ==
    LET level == IF block.level = 0 THEN 1 ELSE block.level
        className == CASE level = 1 -> "cv-name"
                       [] level = 2 -> "cv-title"
                       [] level = 3 -> "cv-contact"
                       [] OTHER -> ""
    IN  createElement(headingTag(level), block.text, L, className)

renderParagraph(block, L) == createElement("p", block.text, L, "cv-paragraph")

renderDivider(block) == [Element("div") EXCEPT !.className = "cv-divider"]

RECURSIVE listItems(_, _)
listItems(items, L) ==
    IF items = <<>> THEN <<>>
    ELSE <<createElement("li", Head(items), L, "")>> \o listItems(Tail(items), L)

renderList(block, L) ==
    [Element("div") EXCEPT
        !.className = "cv-list",
        !.children =
            (IF Truthy(block.title)
             THEN <<createElement("div", block.title, L, "list-title")>>
             ELSE <<>>)
            \o (IF block.hasItems
                THEN <<[Element("ul") EXCEPT
                          !.children = listItems(block.items, L)]>>
                ELSE <<>>)]

\* an empty placeholder in place of null
renderDefaultPlaceholder(block) == Element("div")

\* default: console.warn, return null
renderDefault(block) == NoNode

sectionTitleText(block, L) == getLocalizedText(block.title, L)

\* the h2 with the hash link appended
sectionTitle(block, L) ==
    appendChild(createElement("h2", block.title, L, "section-title"),
                [Element("a") EXCEPT
                    !.href = <<"#">> \o generateId(sectionTitleText(block, L)),
                    !.className = "section-hash-link",
                    !.text = <<"#">>,
                    !.title = <<"Link to ">> \o sectionTitleText(block, L)])

RECURSIVE renderBlock(_, _), renderChildren(_, _)

\* blocks.forEach: append every rendered block that is not null
renderChildren(blocks, L) ==
    IF blocks = <<>> THEN <<>>
    ELSE LET renderedBlock == renderBlock(Head(blocks), L)
         IN  (IF renderedBlock # NoNode THEN <<renderedBlock>> ELSE <<>>)
                 \o renderChildren(Tail(blocks), L)

renderSection(block, L) ==
    [Element("div") EXCEPT
        !.className = "cv-section",
        !.id = IF Truthy(block.title)
               THEN generateId(sectionTitleText(block, L)) ELSE EmptyString,
        !.children =
            (IF Truthy(block.title) THEN <<sectionTitle(block, L)>> ELSE <<>>)
            \o (IF block.hasBlocks THEN renderChildren(block.blocks, L)
                ELSE <<>>)]

\* the children rendered inside the test for a title
renderSubsectionTitledOnly(block, L) ==
    [Element("div") EXCEPT
        !.className = "cv-subsection",
        !.children =
            IF Truthy(block.title)
            THEN <<createElement("h3", block.title, L, "subsection-title")>>
                    \o (IF block.hasBlocks THEN renderChildren(block.blocks, L)
                        ELSE <<>>)
            ELSE <<>>]

renderSubsection(block, L) ==
    [Element("div") EXCEPT
        !.className = "cv-subsection",
        !.children =
            (IF Truthy(block.title)
             THEN <<createElement("h3", block.title, L, "subsection-title")>>
             ELSE <<>>)
            \o (IF block.hasBlocks THEN renderChildren(block.blocks, L)
                ELSE <<>>)]

renderBlock(block, L) ==
    IF block.kind = "null" \/ block.type = "" THEN NoNode
    ELSE CASE block.type = "header" -> renderHeader(block, L)
           [] block.type = "heading" -> renderHeading(block, L)
           [] block.type = "paragraph" -> renderParagraph(block, L)
           [] block.type = "section" -> renderSection(block, L)
           [] block.type = "subsection" -> renderSubsection(block, L)
           [] block.type = "list" -> renderList(block, L)
           [] block.type = "divider" -> renderDivider(block)
           [] OTHER -> renderDefault(block)

(***************************************************************************)
(* CVRenderer.renderCV                                                      *)
(***************************************************************************)
InvalidCV == "Error: Invalid CV data structure"

renderCV(d, L) ==
    IF d.kind = "absent" \/ BlocksFalsy(d) THEN Thrown(InvalidCV)
    ELSE IF TocThrows(d) THEN Thrown("TypeError")
    ELSE [outcome |-> "returned",
          toc |-> generateTableOfContents(d, L),
          content |-> [Element("div") EXCEPT
                          !.className = "cv-document",
                          !.children = renderChildren(d.blocks, L)]]

(***************************************************************************)
(* The renderer: a document is loaded, the language is switched, the        *)
(* document is rendered                                                     *)
(***************************************************************************)
tHi == Str(<<"H", "i">>)
tHiBang == Str(<<"h", "i", "!">>)
tSpaced == Str(<<" ", "A", " ", "b">>)
tBold == Str(<<"{{bold(", "'", "x", "'", ")}}">>)
tLoc == Obj(<< [key |-> "en", value |-> <<"H", "i">>],
               [key |-> "fr", value |-> <<"B", "o", "n">>] >>)
tFr == Obj(<< [key |-> "fr", value |-> <<"B", "o", "n">>] >>)
tEmptyObject == Obj(<<>>)

Unknown == OfType("timeline")

TopBlocks ==
    { NullBlock,
      EmptyObject,
      Unknown,
      Paragraph(tBold),
      Section(tHi, <<Paragraph(tHi), OfType("divider")>>),
      Section(tHiBang, <<>>),
      Section(tLoc, <<Unknown, Section(tFr, <<>>), NullBlock,
                      Subsection(tHi, <<Paragraph(tLoc), Unknown>>)>>),
      Section(Absent,
              << Subsection(Absent, <<List(Absent, <<tHi, tLoc>>)>>),
                 [OfType("header") EXCEPT
                     !.name = tLoc, !.title = tHi,
                     !.contact = [present |-> TRUE, email |-> tHi,
                                  phone |-> Absent, location |-> tFr]],
                 Heading(tSpaced, 2),
                 List(tHi, <<>>) >>),
      [OfType("section") EXCEPT !.title = tEmptyObject] }

Documents ==
    {NoDocument}
    \cup {Document(k, <<>>) : k \in {"absent", "emptyString", "string", "object"}}
    \cup {Document("array", bs) : bs \in SeqsUpTo(TopBlocks, MaxBlocks)}

UiLanguages == {"en", "fr"}

Init ==
    /\ currentLanguage = "en"
    /\ cvData \in Documents
    /\ rendered = NotRendered
    /\ text = EmptyString
    /\ localizedText = Absent
    /\ language = "en"
    /\ returned = EmptyString
    /\ pc = "idle"

SetLanguage(l) ==
    /\ currentLanguage' = l
    /\ UNCHANGED <<cvData, rendered, text, localizedText, language, returned,
                   pc>>

RenderCV ==
    /\ rendered' = renderCV(cvData, currentLanguage)
    /\ UNCHANGED <<currentLanguage, cvData, text, localizedText, language,
                   returned, pc>>

Next ==
    \/ \E l \in UiLanguages : SetLanguage(l)
    \/ RenderCV

Spec == Init /\ [][Next]_vars

(***************************************************************************)
(* Reading a rendered result                                                *)
(***************************************************************************)
\* the <a> elements of the table of contents, in order
TocLinks(r) ==
    [k \in 1..Len(r.toc.children[2].children) |->
        r.toc.children[2].children[k].children[1]]

IsTitledSection(n) ==
    /\ n.className = "cv-section"
    /\ n.children # <<>>
    /\ n.children[1].className = "section-title"

\* the top-level section elements that carry a title, in order
TitledSections(r) == SelectSeq(r.content.children, IsTitledSection)

\* the hash link of a titled section element
HashLink(n) == n.children[1].children[1]

\* the positions of the top-level blocks that are sections with a title
TitledSectionIndexes(d) ==
    {i \in 1..Len(d.blocks) :
        /\ d.blocks[i].kind = "object"
        /\ d.blocks[i].type = "section"
        /\ Truthy(d.blocks[i].title)}

\* the k-th smallest element of a set of positions
Kth(S, k) == CHOOSE i \in S : Cardinality({j \in S : j <= i}) = k

IsUnknown(b) == b.kind = "object" /\ b.type # "" /\ b.type \notin KnownTypes

\* a block sequence without its blocks of unknown type, at every depth
RECURSIVE WithoutUnknown(_)
WithoutUnknown(blocks) ==
    IF blocks = <<>> THEN <<>>
    ELSE IF IsUnknown(Head(blocks)) THEN WithoutUnknown(Tail(blocks))
    ELSE <<[Head(blocks) EXCEPT !.blocks = WithoutUnknown(@)]>>
             \o WithoutUnknown(Tail(blocks))

(***************************************************************************)
(* C1                                                                       *)
(***************************************************************************)
\* C1: in one rendered result the k-th table-of-contents link and the k-th
\* titled top-level section agree: the link's href is "#" followed by the
\* section element's id, and equals the href of the section's hash link.
C1_TocMatchesSectionIds ==
    rendered.outcome = "returned" =>
        /\ Len(TocLinks(rendered)) = Len(TitledSections(rendered))
        /\ \A k \in 1..Len(TocLinks(rendered)) :
              /\ TocLinks(rendered)[k].href
                    = <<"#">> \o TitledSections(rendered)[k].id
              /\ TocLinks(rendered)[k].href
                    = HashLink(TitledSections(rendered)[k]).href

\* rendered in French: the localized title gives the link "#bon", next to a
\* second titled section
C1_Witness ==
    /\ rendered.outcome = "returned"
    /\ Len(TocLinks(rendered)) >= 2
    /\ \E k \in 1..Len(TocLinks(rendered)) :
          /\ TocLinks(rendered)[k].text = <<"B", "o", "n">>
          /\ TocLinks(rendered)[k].href = <<"#", "b", "o", "n">>
          /\ TitledSections(rendered)[k].id = <<"b", "o", "n">>

(***************************************************************************)
(* C2                                                                       *)
(***************************************************************************)
\* C2: renderCV throws "Invalid CV data structure" whenever the document is
\* absent or its blocks field is absent or not a sequence, and returns a
\* result only when blocks is a sequence.
C2_InvalidDocumentRefused ==
    rendered # NotRendered =>
        /\ (cvData.kind = "absent" \/ cvData.blocksKind # "array")
              => rendered.outcome = InvalidCV
        /\ rendered.outcome = "returned" => cvData.blocksKind = "array"

(***************************************************************************)
(* C3                                                                       *)
(***************************************************************************)
\* C3: a block of unknown type renders to nothing, and a call of renderCV
\* ends exactly as it would on the document without its blocks of unknown
\* type (top level and nested).
C3_UnknownBlockIgnored ==
    [][RenderCV =>
        /\ \A i \in 1..Len(cvData.blocks) :
              IsUnknown(cvData.blocks[i])
                 => renderBlock(cvData.blocks[i], currentLanguage) = NoNode
        /\ rendered' = renderCV([cvData EXCEPT !.blocks = WithoutUnknown(@)],
                                currentLanguage)]_vars

\* an unknown block between two rendered siblings, and one nested in a section
C3_Witness ==
    /\ rendered.outcome = "returned"
    /\ Len(cvData.blocks) = 3
    /\ IsUnknown(cvData.blocks[2])
    /\ cvData.blocks[3].type = "section"
    /\ \E i \in 1..Len(cvData.blocks[3].blocks) :
          IsUnknown(cvData.blocks[3].blocks[i])
    /\ Len(rendered.content.children) = 2
    /\ rendered.content.children[1].className = "cv-paragraph"
    /\ rendered.content.children[2].className = "cv-section"

(***************************************************************************)
(* C4                                                                       *)
(***************************************************************************)
\* C4: for every document whose blocks field is a sequence renderCV returns
\* a result, whatever the elements are (null, without type, of unknown type).
C4_BadBlocksTolerated ==
    (rendered # NotRendered /\ cvData.blocksKind = "array")
        => rendered.outcome = "returned"

(***************************************************************************)
(* C7                                                                       *)
(***************************************************************************)
\* C7: a call of renderCV that returns gives a table of contents with one
\* entry per top-level section block with a title, in document order, each
\* labelled with the resolved title; nothing else contributes an entry, equal
\* slugs are both kept, and no entry still gives the container.
C7_TocEntries ==
    [][(RenderCV /\ rendered'.outcome = "returned") =>
        /\ rendered'.toc.className = "cv-toc"
        /\ Len(TocLinks(rendered')) = Cardinality(TitledSectionIndexes(cvData))
        /\ \A k \in 1..Len(TocLinks(rendered')) :
              TocLinks(rendered')[k].text =
                 getLocalizedText(
                    cvData.blocks[Kth(TitledSectionIndexes(cvData), k)].title,
                    currentLanguage)]_vars

\* two sections with the same slug, beside an untitled section with nested
\* content: two entries, both "#hi"
C7_Witness ==
    /\ rendered.outcome = "returned"
    /\ Len(cvData.blocks) = 3
    /\ TitledSectionIndexes(cvData) = {1, 3}
    /\ cvData.blocks[2].type = "section"
    /\ Len(TocLinks(rendered)) = 2
    /\ TocLinks(rendered)[1].href = <<"#", "h", "i">>
    /\ TocLinks(rendered)[2].href = <<"#", "h", "i">>
    /\ TocLinks(rendered)[1].text # TocLinks(rendered)[2].text

(***************************************************************************)
(* Reading the tree                                                         *)
(***************************************************************************)
IsContainer(b) == b.kind = "object" /\ b.type \in {"section", "subsection"}

\* the section and subsection blocks of a block sequence, at every depth
\* that is rendered
RECURSIVE Containers(_)
Containers(blocks) ==
    IF blocks = <<>> THEN {}
    ELSE (IF IsContainer(Head(blocks))
          THEN {Head(blocks)} \cup Containers(Head(blocks).blocks)
          ELSE {}) \cup Containers(Tail(blocks))

\* an element and everything below it
RECURSIVE Descendants(_)
Descendants(n) ==
    {n} \cup UNION {Descendants(n.children[i]) : i \in 1..Len(n.children)}

IsElement(n) == n # NoNode

\* kids are the elements renderBlock gives for blocks, none left out or
\* added, in the order of blocks
ChildrenInOrder(blocks, kids, L) ==
    kids = SelectSeq([i \in 1..Len(blocks) |-> renderBlock(blocks[i], L)],
                     IsElement)

\* the children of element n after the title element of block b, if any
AfterTitle(b, n) ==
    SubSeq(n.children, (IF Truthy(b.title) THEN 2 ELSE 1), Len(n.children))

(***************************************************************************)
(* C11                                                                      *)
(***************************************************************************)
\* C11: in every result renderCV returns, the element of each section or
\* subsection block, at any depth, has as children its title element (when
\* the block has a title) followed by exactly the elements renderBlock gives
\* for its blocks, in input order; so has the document element for the
\* top-level blocks.
C11_ChildrenInInputOrder ==
    [][(RenderCV /\ rendered'.outcome = "returned") =>
        /\ ChildrenInOrder(cvData.blocks, rendered'.content.children,
                           currentLanguage)
        /\ \A c \in Containers(cvData.blocks) :
              LET n == renderBlock(c, currentLanguage)
              IN  /\ n \in Descendants(rendered'.content)
                  /\ Truthy(c.title) =>
                        n.children[1].className
                           \in {"section-title", "subsection-title"}
                  /\ ChildrenInOrder(c.blocks, AfterTitle(c, n),
                                     currentLanguage)]_vars

\* a titled section holding a subsection holding a paragraph, three levels
\* deep, beside an untitled section whose untitled subsection still holds
\* its list
C11_Witness ==
    /\ rendered.outcome = "returned"
    /\ \E i, j \in 1..Len(rendered.content.children) :
          LET titled == rendered.content.children[i]
              untitled == rendered.content.children[j]
          IN  /\ titled.className = "cv-section"
              /\ Len(titled.children) = 3
              /\ titled.children[1].className = "section-title"
              /\ titled.children[2].className = "cv-section"
              /\ titled.children[3].className = "cv-subsection"
              /\ Len(titled.children[3].children) = 2
              /\ titled.children[3].children[2].className = "cv-paragraph"
              /\ untitled.className = "cv-section"
              /\ Len(untitled.children) = 4
              /\ untitled.children[1].className = "cv-subsection"
              /\ Len(untitled.children[1].children) = 1
              /\ untitled.children[1].children[1].className = "cv-list"

(***************************************************************************)
(* C12                                                                      *)
(***************************************************************************)
\* the list blocks of a block sequence, at every depth that is rendered
RECURSIVE ListBlocks(_)
ListBlocks(blocks) ==
    IF blocks = <<>> THEN {}
    ELSE (IF IsContainer(Head(blocks)) THEN ListBlocks(Head(blocks).blocks)
          ELSE IF Head(blocks).kind = "object" /\ Head(blocks).type = "list"
          THEN {Head(blocks)}
          ELSE {}) \cup ListBlocks(Tail(blocks))

\* element n is list block b as the claim has it: the title (when there is
\* one), then one <ul> with one <li> per item, in order, and no <ul> at all
\* when there is no item
ListAsClaimed(b, n, L) ==
    LET t == IF Truthy(b.title) THEN 1 ELSE 0
    IN  /\ n.className = "cv-list"
        /\ Truthy(b.title) =>
              /\ n.children[1].className = "list-title"
              /\ n.children[1].text = processLocalizedText(b.title, L)
        /\ IF b.items = <<>>
           THEN Len(n.children) = t
           ELSE /\ Len(n.children) = t + 1
                /\ n.children[t + 1].tag = "ul"
                /\ Len(n.children[t + 1].children) = Len(b.items)
                /\ \A k \in 1..Len(b.items) :
                      /\ n.children[t + 1].children[k].tag = "li"
                      /\ n.children[t + 1].children[k].text
                            = processLocalizedText(b.items[k], L)

\* C12: in every result renderCV returns, each list block is rendered as its
\* optional title followed by one list item per element of items, in order,
\* and as the title alone, without an empty <ul>, when items is empty.
C12_ListTitleAloneWhenEmpty ==
    [][(RenderCV /\ rendered'.outcome = "returned") =>
        \A b \in ListBlocks(cvData.blocks) :
           /\ renderBlock(b, currentLanguage) \in Descendants(rendered'.content)
           /\ ListAsClaimed(b, renderBlock(b, currentLanguage),
                            currentLanguage)]_vars

====
